---- MODULE Spec2Model ----
(***************************************************************************)
(* Website change monitoring of the competitors analysis agent:            *)
(* WebsiteMonitor (src/src/services/websiteMonitor.js) with its snapshot   *)
(* files, its change detector and the monitorAll loop.                     *)
(*                                                                         *)
(* JavaScript values are modelled as follows.  An object is a record; a    *)
(* property the object does not have reads as Undefined.  null is the      *)
(* record Null; reading a property of null or undefined throws a           *)
(* TypeError.  A metrics object is a sequence of <<key, value>> entries in *)
(* insertion order (the order Object.keys yields).  A text is the sequence *)
(* of its characters, a word a sequence of characters.  A function that    *)
(* can throw returns [threw |-> TRUE] or [threw |-> FALSE, value |-> v].   *)
(***************************************************************************)
EXTENDS Integers, Sequences, FiniteSets, TLC

\* ------------------------------------------------------------------ bounds
MaxClock == 4          \* monitorWebsite calls explored in one behaviour
MaxCompetitors == 2    \* longest competitors list
MaxTextLen == 4        \* longest text of the exhaustively enumerated texts
MaxCallers == 2        \* triggers (cron ticks, POST /analyze requests) in one behaviour
MaxDay == 2            \* calendar days one behaviour spans
MaxOps == 2            \* loader calls (add, update, remove) in one behaviour

\* ------------------------------------------------------------ JS values
Undefined == "undefined"                 \* a string-valued property that is missing
UndefinedObject == << <<"undefined">> >> \* an object-valued property that is missing
Null == [isNull |-> TRUE]

Prop(obj, f) == IF f \in DOMAIN obj THEN obj[f] ELSE Undefined

\* obj.metrics
MetricsOf(obj) == IF "metrics" \in DOMAIN obj THEN obj.metrics ELSE UndefinedObject

Truthy(obj) == obj # Null

Range(s) == {s[k] : k \in 1..Len(s)}

Abs(n) == IF n < 0 THEN -n ELSE n

Max(a, b) == IF a >= b THEN a ELSE b

HasKey(m, key) == \E k \in 1..Len(m) : m[k][1] = key

\* m[key] for a key the object has
ValueOf(m, key) == m[CHOOSE k \in 1..Len(m) : m[k][1] = key][2]

\* --------------------------------------------------------- fetched pages
\* crypto sha256 hex digest of the html; distinct markup, distinct digest
generateHash(content) ==
  CASE content = "<html>v1</html>" -> "5d2f8c"
    [] content = "<html>v2</html>" -> "a91e04"
    [] OTHER -> "e3b0c4"

MetricsBase == << <<"wordCount", 100>>, <<"linkCount", 10>>,
                  <<"imageCount", 0>>, <<"headingCount", 4>> >>

MetricsGrown == << <<"wordCount", 111>>, <<"linkCount", 10>>,
                   <<"imageCount", 3>>, <<"headingCount", 4>> >>

Page(html, title, url, text, metrics) ==
  [html |-> html, title |-> title, url |-> url, textContent |-> text,
   metrics |-> metrics]

\* the text "a b c d"
TextABCD == <<"a", " ", "b", " ", "c", " ", "d">>

\* the text "e f g h"
TextEFGH == <<"e", " ", "f", " ", "g", " ", "h">>

\* the text "a b e f"
TextABEF == <<"a", " ", "b", " ", "e", " ", "f">>

BasePage == Page("<html>v1</html>", "Home", "https://acme.test/",
                 TextABCD, MetricsBase)

\* what the browser can deliver for a site on different days
Pages ==
  { BasePage,
    [BasePage EXCEPT !.html = "<html>v2</html>"],
    [BasePage EXCEPT !.title = "home"],
    [BasePage EXCEPT !.url = "https://acme.test/new"],
    [BasePage EXCEPT !.html = "<html>v2</html>", !.metrics = MetricsGrown,
                     !.textContent = TextABEF] }

\* ------------------------------------------------------- change detector
Ok(v) == [threw |-> FALSE, value |-> v]
Threw == [threw |-> TRUE]

\* variant of ChangeExceeds: the comparison with the threshold is >=
ChangeExceeds_Inclusive(cur, prev, num, den) ==
  /\ prev > 0
  /\ Abs(cur - prev) * den >= prev * num

\* |current - previous| / previous > num/den, on integers
ChangeExceeds(cur, prev, num, den) ==
  /\ prev > 0
  /\ Abs(cur - prev) * den > prev * num

\* variant of MetricRecord: change holds the percentage, not the fraction
MetricRecord_Percent(metric, cur, prev) ==
  [type |-> "metric", metric |-> metric,
   description |-> [from |-> prev, to |-> cur],
   severity |-> IF ChangeExceeds(cur, prev, 1, 2) THEN "high" ELSE "medium",
   change |-> [num |-> Abs(cur - prev) * 100, den |-> prev]]

MetricRecord(metric, cur, prev) ==
  [type |-> "metric", metric |-> metric,
   description |-> [from |-> prev, to |-> cur],
   severity |-> IF ChangeExceeds(cur, prev, 1, 2) THEN "high" ELSE "medium",
   change |-> [num |-> Abs(cur - prev), den |-> prev]]

\* variant of MetricStep: the threshold test is left out
MetricStep_NoThreshold(current, previous, k) ==
  LET metric == current[k][1]
      cur    == current[k][2]
  IN IF HasKey(previous, metric) /\ ValueOf(previous, metric) # 0
     THEN << MetricRecord(metric, cur, ValueOf(previous, metric)) >>
     ELSE << >>

\* variant of MetricStep: a key the previous map lacks counts as previous value 1
MetricStep_DefaultPrevious(current, previous, k) ==
  LET metric == current[k][1]
      cur    == current[k][2]
      prev   == IF HasKey(previous, metric) THEN ValueOf(previous, metric) ELSE 1
  IN IF prev # 0 /\ ChangeExceeds(cur, prev, 1, 10)
     THEN << MetricRecord(metric, cur, prev) >>
     ELSE << >>

\* variant of MetricStep: no test of previous[metric]; x / 0 is Infinity for
\* x > 0 and exceeds the threshold
MetricStep_NoZeroGuard(current, previous, k) ==
  LET metric == current[k][1]
      cur    == current[k][2]
  IN IF HasKey(previous, metric)
        /\ \/ ValueOf(previous, metric) = 0 /\ cur # 0
           \/ ChangeExceeds(cur, ValueOf(previous, metric), 1, 10)
     THEN << MetricRecord(metric, cur, ValueOf(previous, metric)) >>
     ELSE << >>

\* the records pushed by the forEach callback for the entry at position k
MetricStep(current, previous, k) ==
  LET metric == current[k][1]
      cur    == current[k][2]
  IN IF HasKey(previous, metric) /\ ValueOf(previous, metric) # 0
        /\ ChangeExceeds(cur, ValueOf(previous, metric), 1, 10)
     THEN << MetricRecord(metric, cur, ValueOf(previous, metric)) >>
     ELSE << >>

\* variant of MetricChanges: the keys are visited from the last to the first
RECURSIVE MetricChanges_Reversed(_, _, _)
MetricChanges_Reversed(current, previous, k) ==
  IF k > Len(current) THEN << >>
  ELSE MetricChanges_Reversed(current, previous, k + 1)
         \o MetricStep(current, previous, k)

RECURSIVE MetricChanges(_, _, _)
MetricChanges(current, previous, k) ==
  IF k > Len(current) THEN << >>
  ELSE MetricStep(current, previous, k) \o MetricChanges(current, previous, k + 1)

compareMetrics(current, previous) ==
  IF current = UndefinedObject THEN Threw             \* Object.keys(undefined)
  ELSE IF previous = UndefinedObject
       THEN (IF Len(current) > 0 THEN Threw           \* previous[metric]
             ELSE Ok(<< >>))
  ELSE Ok(MetricChanges(current, previous, 1))

ContentChange ==
  [type |-> "content", description |-> "Page content has changed",
   severity |-> "medium"]

TitleChange(current, previous) ==
  [type |-> "title",
   description |-> [from |-> Prop(previous, "title"), to |-> Prop(current, "title")],
   severity |-> "high"]

UrlChange(current, previous) ==
  [type |-> "url",
   description |-> [from |-> Prop(previous, "url"), to |-> Prop(current, "url")],
   severity |-> "high"]

\* variant of detectChanges: titles are compared without regard to case
detectChanges_CaseInsensitive(current, previous) ==
  IF current = Null \/ previous = Null THEN Threw
  ELSE
    LET ToLowerCase(title) == IF title = "Home" THEN "home" ELSE title
        c1 == IF Prop(current, "hash") # Prop(previous, "hash")
              THEN << ContentChange >> ELSE << >>
        c2 == IF ToLowerCase(Prop(current, "title")) # ToLowerCase(Prop(previous, "title"))
              THEN << TitleChange(current, previous) >> ELSE << >>
        c3 == IF Prop(current, "url") # Prop(previous, "url")
              THEN << UrlChange(current, previous) >> ELSE << >>
        mc == compareMetrics(MetricsOf(current), MetricsOf(previous))
    IN IF mc.threw THEN Threw ELSE Ok(c1 \o c2 \o c3 \o mc.value)

\* variant of detectChanges: the metric records are pushed first
detectChanges_MetricsFirst(current, previous) ==
  IF current = Null \/ previous = Null THEN Threw
  ELSE
    LET c1 == IF Prop(current, "hash") # Prop(previous, "hash")
              THEN << ContentChange >> ELSE << >>
        c2 == IF Prop(current, "title") # Prop(previous, "title")
              THEN << TitleChange(current, previous) >> ELSE << >>
        c3 == IF Prop(current, "url") # Prop(previous, "url")
              THEN << UrlChange(current, previous) >> ELSE << >>
        mc == compareMetrics(MetricsOf(current), MetricsOf(previous))
    IN IF mc.threw THEN Threw ELSE Ok(mc.value \o c1 \o c2 \o c3)

detectChanges(current, previous) ==
  IF current = Null \/ previous = Null THEN Threw       \* previous.hash
  ELSE
    LET c1 == IF Prop(current, "hash") # Prop(previous, "hash")
              THEN << ContentChange >> ELSE << >>
        c2 == IF Prop(current, "title") # Prop(previous, "title")
              THEN << TitleChange(current, previous) >> ELSE << >>
        c3 == IF Prop(current, "url") # Prop(previous, "url")
              THEN << UrlChange(current, previous) >> ELSE << >>
        mc == compareMetrics(MetricsOf(current), MetricsOf(previous))
    IN IF mc.threw THEN Threw ELSE Ok(c1 \o c2 \o c3 \o mc.value)

\* characters matched by \s
IsSpace(ch) == ch = " "

\* text.split(/\s+/) from position i on, word being the characters read since
\* the last separator: every maximal run of whitespace ends a word (an empty
\* one at the start of the text) and the end of the text ends the last word
RECURSIVE SplitFrom(_, _, _)
SplitFrom(text, i, word) ==
  IF i > Len(text) THEN << word >>
  ELSE IF IsSpace(text[i])
       THEN IF i < Len(text) /\ IsSpace(text[i + 1])
            THEN SplitFrom(text, i + 1, word)
            ELSE << word >> \o SplitFrom(text, i + 1, << >>)
       ELSE SplitFrom(text, i + 1, Append(word, text[i]))

\* text.split(/\s+/): the empty text splits into one empty word
Split(text) == SplitFrom(text, 1, << >>)

\* variant of calculateChangeRate: the common words are related to the
\* shorter of the two word lists
calculateChangeRate_MinLength(current, previous) ==
  LET currentWords  == Split(current.textContent)
      previousWords == Split(previous.textContent)
      commonWords   == SelectSeq(currentWords, LAMBDA w : w \in Range(previousWords))
      shortest      == IF Len(currentWords) <= Len(previousWords)
                       THEN Len(currentWords) ELSE Len(previousWords)
  IN [num |-> shortest - Len(commonWords), den |-> shortest]

calculateChangeRate(current, previous) ==
  LET currentWords  == Split(current.textContent)
      previousWords == Split(previous.textContent)
      commonWords   == SelectSeq(currentWords, LAMBDA w : w \in Range(previousWords))
      longest       == Max(Len(currentWords), Len(previousWords))
  IN [num |-> longest - Len(commonWords), den |-> longest]

calculateMetrics(current, previous) ==
  [currentMetrics  |-> current.metrics,
   previousMetrics |-> IF Truthy(previous) /\ MetricsOf(previous) # UndefinedObject
                       THEN previous.metrics ELSE << >>,
   changeRate      |-> IF Truthy(previous)
                       THEN calculateChangeRate(current, previous)
                       ELSE [num |-> 0, den |-> 1]]

\* -------------------------------------------------------- snapshot store
Ids == {"c1", "c2", "c3"}

\* a snapshot file: absent, unparseable (truncated or garbled), or a JSON document
FileMissing == [state |-> "missing"]
FileCorrupt == [state |-> "corrupt"]

\* JSON.stringify keeps the defined properties of a plain object, in order
JSONstringify(obj) == [state |-> "json", doc |-> obj]

\* variant of loadPreviousSnapshot: one snapshot file shared by all competitors
loadPreviousSnapshot_SharedFile(store, competitorId) ==
  IF store["c1"].state = "json" THEN store["c1"].doc ELSE Null

\* variant of loadPreviousSnapshot: an unparseable file yields {} instead of null
loadPreviousSnapshot_EmptyObject(store, competitorId) ==
  CASE store[competitorId].state = "json"    -> store[competitorId].doc
    [] store[competitorId].state = "corrupt" -> << >>
    [] OTHER                                 -> Null

\* fs.readFile + JSON.parse; both throw into the catch that returns null
loadPreviousSnapshot(store, competitorId) ==
  IF store[competitorId].state = "json" THEN store[competitorId].doc ELSE Null

\* outcomes of fs.writeFile: the file is replaced; the call fails and leaves
\* the file as it was; the call fails after truncating the file
WriteOutcomes == {"written", "failed", "truncated"}

\* variant of saveSnapshot: the snapshot is written to the file of every id
saveSnapshot_EveryFile(store, competitorId, snapshot, io) ==
  CASE io = "written"   -> [id \in Ids |-> JSONstringify(snapshot)]
    [] io = "truncated" -> [store EXCEPT ![competitorId] = FileCorrupt]
    [] OTHER            -> store

\* the write error is caught and logged, nothing is returned or thrown
saveSnapshot(store, competitorId, snapshot, io) ==
  CASE io = "written"   -> [store EXCEPT ![competitorId] = JSONstringify(snapshot)]
    [] io = "truncated" -> [store EXCEPT ![competitorId] = FileCorrupt]
    [] OTHER            -> store

\* ------------------------------------------------------------ competitors
MonitoringSettings == {[website |-> TRUE], [website |-> FALSE]}

Competitor(id) == [id |-> id, name |-> id, website |-> id]

\* a competitor entry with or without a monitoring block
CompetitorEntries ==
  {Competitor(id) : id \in Ids}
    \cup {[id |-> id, name |-> id, website |-> id, monitoring |-> m] :
            id \in Ids, m \in MonitoringSettings}

\* competitor.monitoring?.website
MonitorsWebsite(competitor) ==
  "monitoring" \in DOMAIN competitor /\ competitor.monitoring.website

DistinctIds(list) ==
  \A a, b \in 1..Len(list) : a # b => list[a].id # list[b].id

CompetitorLists ==
  {list \in UNION {[1..n -> CompetitorEntries] : n \in 1..MaxCompetitors} :
     DistinctIds(list)}

\* ------------------------------------------------------------------ state
VARIABLES
  competitors,       \* the list handed to monitorAll
  snapshots,         \* snapshot file of every competitor id
  browser,           \* this.browser: "none" or "open"
  pc,                \* position of monitorAll / monitorWebsite
  idx,               \* position of the for-of loop in competitors
  results,           \* results array of monitorAll
  outcome,           \* how the last monitorAll ended
  res,               \* results object of the monitorWebsite call in progress
  currentContent,    \* value returned by getPageContent
  previousSnapshot,  \* value returned by loadPreviousSnapshot
  now,               \* clock: number of monitorWebsite calls started
  lastWritten,       \* history: per id, the snapshot of the latest successful write
  scenario,          \* history: per id, what the run of the latest write was
  log,               \* history: steps of the monitorWebsite call in progress
  dcCurrent,         \* detector called on its own: argument current
  dcPrevious,        \* detector called on its own: argument previous
  dcResult,          \* detector called on its own: what the call produced
  isRunning,         \* agent: this.isRunning
  lastRun,           \* agent: this.lastRun (0 is null, else the run that set it)
  calls,             \* agent: per trigger, where its handler stands
  runs,              \* agent: number of analyses that passed the guard
  today,             \* agent: calendar day of the clock
  reportFiles,       \* report generator: per report id, the run whose report the file holds
  emailEnabled,      \* config.reports.emailEnabled
  competitorsFile,   \* loader: competitors array of the competitors file
  cache,             \* loader: this.competitors
  ops,               \* loader: per call, where it stands
  overlapped         \* history: two loader calls were in progress at once

monitorVars == <<competitors, snapshots, browser, pc, idx, results, outcome, res,
                 currentContent, previousSnapshot, now, lastWritten, scenario, log>>

detectorVars == <<dcCurrent, dcPrevious, dcResult>>

agentVars == <<isRunning, lastRun, calls, runs, today, reportFiles, emailEnabled>>

loaderVars == <<competitorsFile, cache, ops, overlapped>>

vars == <<monitorVars, detectorVars, agentVars, loaderVars>>

\* ---------------------------------------------------- agent: values at rest
Callers == 1..MaxCallers

Days == 1..MaxDay

\* `weekly-YYYY-MM-DD` of the date: one value per calendar day
generateReportId(day) == << "weekly", day >>

ReportIds == {generateReportId(day) : day \in Days}

\* a trigger that has not fired
NoCall == [kind |-> "none", pc |-> "idle", idx |-> 0, run |-> 0,
           reportId |-> << >>, answer |-> "none", status |-> 0]

AgentAtRest ==
  /\ isRunning = FALSE
  /\ lastRun = 0
  /\ calls = [c \in Callers |-> NoCall]
  /\ runs = 0
  /\ today = 1
  /\ reportFiles = [id \in ReportIds |-> 0]
  /\ emailEnabled = FALSE

\* --------------------------------------------------- loader: values at rest
OpSlots == 1..MaxOps

\* a competitor id: the string base, or base-n for n > 0; the empty id is the
\* missing (falsy) one
NoId == << "", 0 >>

NoOp == [op |-> "none", pc |-> "idle",
         arg |-> [id |-> NoId, name |-> "", website |-> ""],
         updates |-> [name |-> ""], jsonData |-> << >>, result |-> "none"]

LoaderAtRest ==
  /\ competitorsFile = << >>
  /\ cache = << >>
  /\ ops = [o \in OpSlots |-> NoOp]
  /\ overlapped = FALSE

NotRun == [pending |-> TRUE]

NoResult == [competitor |-> "", website |-> "", timestamp |-> 0,
             changes |-> << >>, errors |-> << >>, metrics |-> << >>]

Init ==
  /\ competitors \in CompetitorLists
  /\ snapshots = [id \in Ids |-> FileMissing]
  /\ browser = "none"
  /\ pc = "idle"
  /\ idx = 1
  /\ results = << >>
  /\ outcome = "none"
  /\ res = NoResult
  /\ currentContent = Null
  /\ previousSnapshot = Null
  /\ now = 0
  /\ lastWritten = [id \in Ids |-> Null]
  /\ scenario = [id \in Ids |-> "none"]
  /\ log = << >>
  /\ dcCurrent = Null
  /\ dcPrevious = Null
  /\ dcResult = NotRun
  /\ AgentAtRest
  /\ LoaderAtRest

NumMonitored(list) == Cardinality({k \in 1..Len(list) : MonitorsWebsite(list[k])})

\* ------------------------------------------------------------- monitorAll
\* monitorAll(competitors) is entered (from runAnalysis)
MonitorAllStart ==
  /\ pc = "idle"
  /\ now + NumMonitored(competitors) <= MaxClock
  /\ pc' = "loop"
  /\ idx' = 1
  /\ results' = << >>
  /\ outcome' = "none"
  /\ UNCHANGED <<competitors, snapshots, browser, res, currentContent,
                 previousSnapshot, now, lastWritten, scenario, log>>
  /\ UNCHANGED <<detectorVars, agentVars, loaderVars>>

\* for-of step over a competitor without website monitoring
MonitorAllSkip ==
  /\ pc = "loop"
  /\ idx <= Len(competitors)
  /\ ~MonitorsWebsite(competitors[idx])
  /\ idx' = idx + 1
  /\ UNCHANGED <<competitors, snapshots, browser, pc, results, outcome, res,
                 currentContent, previousSnapshot, now, lastWritten, scenario, log>>
  /\ UNCHANGED <<detectorVars, agentVars, loaderVars>>

\* for-of step that calls monitorWebsite(competitor)
MonitorAllCall ==
  /\ pc = "loop"
  /\ idx <= Len(competitors)
  /\ MonitorsWebsite(competitors[idx])
  /\ pc' = "fetch"
  /\ UNCHANGED <<competitors, snapshots, browser, idx, results, outcome, res,
                 currentContent, previousSnapshot, now, lastWritten, scenario, log>>
  /\ UNCHANGED <<detectorVars, agentVars, loaderVars>>

\* variant of MonitorAllPush: a result with errors ends the whole loop
MonitorAllPush_AbortOnError ==
  /\ pc = "push"
  /\ IF res.errors # << >>
     THEN /\ pc' = "idle"
          /\ outcome' = "rejected"
          /\ UNCHANGED <<results, idx>>
     ELSE /\ results' = Append(results, res)
          /\ idx' = idx + 1
          /\ pc' = "loop"
          /\ outcome' = outcome
  /\ currentContent' = Null
  /\ previousSnapshot' = Null
  /\ UNCHANGED <<competitors, snapshots, browser, res, now, lastWritten, scenario, log>>
  /\ UNCHANGED <<detectorVars, agentVars, loaderVars>>

\* variant of MonitorAllPush: the result is put in front (results.unshift)
MonitorAllPush_Unshift ==
  /\ pc = "push"
  /\ results' = << res >> \o results
  /\ idx' = idx + 1
  /\ pc' = "loop"
  /\ currentContent' = Null
  /\ previousSnapshot' = Null
  /\ UNCHANGED <<competitors, snapshots, browser, outcome, res, now,
                 lastWritten, scenario, log>>
  /\ UNCHANGED <<detectorVars, agentVars, loaderVars>>

\* results.push(result) and the pause between two competitors
MonitorAllPush ==
  /\ pc = "push"
  /\ results' = Append(results, res)
  /\ idx' = idx + 1
  /\ pc' = "loop"
  /\ currentContent' = Null
  /\ previousSnapshot' = Null
  /\ UNCHANGED <<competitors, snapshots, browser, outcome, res, now,
                 lastWritten, scenario, log>>
  /\ UNCHANGED <<detectorVars, agentVars, loaderVars>>

\* closeBrowser: browser.close() resolves, or rejects and monitorAll rejects
MonitorAllFinish ==
  /\ pc = "loop"
  /\ idx > Len(competitors)
  /\ pc' = "idle"
  /\ \/ /\ browser' = "none"
        /\ outcome' = "returned"
     \/ /\ browser = "open"
        /\ browser' = browser
        /\ outcome' = "rejected"
  /\ UNCHANGED <<competitors, snapshots, idx, results, res, currentContent,
                 previousSnapshot, now, lastWritten, scenario, log>>
  /\ UNCHANGED <<detectorVars, agentVars, loaderVars>>

\* --------------------------------------------------------- monitorWebsite
FreshResult(competitor, time) ==
  [competitor |-> competitor.name, website |-> competitor.website,
   timestamp |-> time, changes |-> << >>, errors |-> << >>, metrics |-> << >>]

\* the object built in the catch block of monitorWebsite
ErrorResult(competitor, time, message) ==
  [FreshResult(competitor, time) EXCEPT !.errors = << message >>]

\* { ...currentContent, hash: contentHash, timestamp: ... }
Snapshot(content, contentHash, time) ==
  [html |-> content.html, title |-> content.title, url |-> content.url,
   textContent |-> content.textContent, metrics |-> content.metrics,
   timestamp |-> time, hash |-> contentHash]

\* the object getPageContent returns for a page
Content(page, time) ==
  [html |-> page.html, title |-> page.title, url |-> page.url,
   textContent |-> page.textContent, metrics |-> page.metrics,
   timestamp |-> time]

\* variant of MonitorWebsiteFetch: a null content ends the call without an
\* entry in results.errors
MonitorWebsiteFetch_NoError ==
  /\ pc = "fetch"
  /\ now' = now + 1
  /\ log' = << "fetch" >>
  /\ previousSnapshot' = Null
  /\ \/ /\ browser = "none"
        /\ browser' = browser
        /\ currentContent' = Null
        /\ res' = ErrorResult(competitors[idx], now', "Failed to launch the browser process")
        /\ pc' = "push"
     \/ /\ browser' = "open"
        /\ currentContent' = Null
        /\ res' = FreshResult(competitors[idx], now')
        /\ pc' = "push"
     \/ \E page \in Pages :
          /\ browser' = "open"
          /\ currentContent' = Content(page, now')
          /\ res' = FreshResult(competitors[idx], now')
          /\ pc' = "load"
  /\ UNCHANGED <<competitors, snapshots, idx, results, outcome, lastWritten, scenario>>
  /\ UNCHANGED <<detectorVars, agentVars, loaderVars>>

\* monitorWebsite up to the test of currentContent.  The value of
\* getPageContent is an input of this step: a content object or null, as its
\* interface documents, or the rejection of initBrowser (no browser yet and
\* the launch fails), which the catch block of monitorWebsite turns into a
\* result.  The body of getPageContent is not part of this step: as written
\* it reads `url` in page.goto(url) (line 138) inside the block that declares
\* `const url` (line 149), so which of the three values it yields for a
\* given browser is a separate question from what monitorWebsite does with
\* each of them.
MonitorWebsiteFetch ==
  /\ pc = "fetch"
  /\ now' = now + 1
  /\ log' = << "fetch" >>
  /\ previousSnapshot' = Null
  /\ \/ /\ browser = "none"
        /\ browser' = browser
        /\ currentContent' = Null
        /\ res' = ErrorResult(competitors[idx], now', "Failed to launch the browser process")
        /\ pc' = "push"
     \/ /\ browser' = "open"
        /\ currentContent' = Null
        /\ res' = [FreshResult(competitors[idx], now')
                     EXCEPT !.errors = << "Failed to fetch page content" >>]
        /\ pc' = "push"
     \/ \E page \in Pages :
          /\ browser' = "open"
          /\ currentContent' = Content(page, now')
          /\ res' = FreshResult(competitors[idx], now')
          /\ pc' = "load"
  /\ UNCHANGED <<competitors, snapshots, idx, results, outcome, lastWritten, scenario>>
  /\ UNCHANGED <<detectorVars, agentVars, loaderVars>>

\* history entry of a load: what the file was when it was read
LoadEvent(file) ==
  CASE file.state = "json"    -> "load:json"
    [] file.state = "corrupt" -> "load:corrupt"
    [] OTHER                  -> "load:missing"

\* variant of MonitorWebsiteLoad: the new snapshot is written before the
\* previous one is read
MonitorWebsiteLoad_SaveFirst ==
  /\ pc = "load"
  /\ LET snapshot == Snapshot(currentContent, generateHash(currentContent.html), now)
     IN /\ snapshots' = saveSnapshot(snapshots, competitors[idx].id, snapshot, "written")
        /\ lastWritten' = [lastWritten EXCEPT ![competitors[idx].id] = snapshot]
        /\ scenario' = [scenario EXCEPT ![competitors[idx].id] = "other"]
  /\ previousSnapshot' = loadPreviousSnapshot(snapshots', competitors[idx].id)
  /\ log' = log \o << "written", LoadEvent(snapshots'[competitors[idx].id]) >>
  /\ pc' = "detect"
  /\ UNCHANGED <<competitors, browser, idx, results, outcome, res,
                 currentContent, now>>
  /\ UNCHANGED <<detectorVars, agentVars, loaderVars>>

\* const previousSnapshot = await this.loadPreviousSnapshot(competitor.id)
MonitorWebsiteLoad ==
  /\ pc = "load"
  /\ previousSnapshot' = loadPreviousSnapshot(snapshots, competitors[idx].id)
  /\ log' = Append(log, LoadEvent(snapshots[competitors[idx].id]))
  /\ pc' = "detect"
  /\ UNCHANGED <<competitors, snapshots, browser, idx, results, outcome, res,
                 currentContent, now, lastWritten, scenario>>
  /\ UNCHANGED <<detectorVars, agentVars, loaderVars>>

\* variant of MonitorWebsiteDetect: the test of previousSnapshot is left out
MonitorWebsiteDetect_NoGuard ==
  /\ pc = "detect"
  /\ LET changes == detectChanges(currentContent, previousSnapshot)
     IN /\ log' = Append(log, "detect")
        /\ IF changes.threw
           THEN /\ res' = ErrorResult(competitors[idx], now,
                                      "Cannot read properties of null")
                /\ pc' = "push"
           ELSE /\ res' = [res EXCEPT
                             !.changes = changes.value,
                             !.metrics = calculateMetrics(currentContent,
                                                          previousSnapshot)]
                /\ pc' = "save"
  /\ UNCHANGED <<competitors, snapshots, browser, idx, results, outcome,
                 currentContent, previousSnapshot, now, lastWritten, scenario>>
  /\ UNCHANGED <<detectorVars, agentVars, loaderVars>>

\* if (previousSnapshot) { detectChanges; calculateMetrics }; a TypeError
\* thrown by the detector is caught by the catch block of monitorWebsite
MonitorWebsiteDetect ==
  /\ pc = "detect"
  /\ IF Truthy(previousSnapshot)
     THEN LET changes == detectChanges(currentContent, previousSnapshot)
          IN /\ log' = Append(log, "detect")
             /\ IF changes.threw
                THEN /\ res' = ErrorResult(competitors[idx], now,
                                           "Cannot read properties of undefined")
                     /\ pc' = "push"
                ELSE /\ res' = [res EXCEPT
                                  !.changes = changes.value,
                                  !.metrics = calculateMetrics(currentContent,
                                                               previousSnapshot)]
                     /\ pc' = "save"
     ELSE /\ pc' = "save"
          /\ UNCHANGED <<res, log>>
  /\ UNCHANGED <<competitors, snapshots, browser, idx, results, outcome,
                 currentContent, previousSnapshot, now, lastWritten, scenario>>
  /\ UNCHANGED <<detectorVars, agentVars, loaderVars>>

\* what a run that wrote the snapshot file was: the first observation
\* ("baseline"), a run after the baseline that fetched what the baseline
\* holds ("repeated"), or another run; "none" when the file is left unusable
RunKind(io, before, content, previous) ==
  IF io = "truncated" THEN "none"
  ELSE IF previous = Null THEN "baseline"
  ELSE IF before = "baseline"
          /\ content.html = previous.html /\ content.title = previous.title
          /\ content.url = previous.url
          /\ content.textContent = previous.textContent
          /\ content.metrics = previous.metrics
       THEN "repeated"
  ELSE "other"

\* await this.saveSnapshot(competitor.id, {...}); then the result is returned
MonitorWebsiteSave ==
  /\ pc = "save"
  /\ \E io \in WriteOutcomes :
       LET snapshot == Snapshot(currentContent, generateHash(currentContent.html), now)
       IN /\ snapshots' = saveSnapshot(snapshots, competitors[idx].id, snapshot, io)
          /\ lastWritten' = IF io = "written"
                             THEN [lastWritten EXCEPT ![competitors[idx].id] = snapshot]
                             ELSE lastWritten
          /\ scenario' = IF io = "failed" THEN scenario
                          ELSE [scenario EXCEPT ![competitors[idx].id] =
                                  RunKind(io, scenario[competitors[idx].id],
                                          currentContent, previousSnapshot)]
          /\ log' = Append(log, io)
  /\ pc' = "push"
  /\ UNCHANGED <<competitors, browser, idx, results, outcome, res,
                 currentContent, previousSnapshot, now>>
  /\ UNCHANGED <<detectorVars, agentVars, loaderVars>>

Next ==
  \/ MonitorAllStart
  \/ MonitorAllSkip
  \/ MonitorAllCall
  \/ MonitorWebsiteFetch
  \/ MonitorWebsiteLoad
  \/ MonitorWebsiteDetect
  \/ MonitorWebsiteSave
  \/ MonitorAllPush
  \/ MonitorAllFinish

Spec == Init /\ [][Next]_vars

TypeOK ==
  /\ pc \in {"idle", "loop", "fetch", "load", "detect", "save", "push"}
  /\ browser \in {"none", "open"}
  /\ now \in 0..MaxClock
  /\ idx \in 1..(Len(competitors) + 1)

\* ------------------------------------------- the detector called on its own
WordCounts == {0, 40, 100, 109, 110, 111, 150, 160}

DetectorMetrics ==
  {<< <<"wordCount", n>> >> : n \in WordCounts}
    \cup { << >>,
           << <<"linkCount", 10>> >>,
           << <<"wordCount", 100>>, <<"linkCount", 10>> >>,
           << <<"linkCount", 10>>, <<"wordCount", 100>> >>,
           << <<"wordCount", 160>>, <<"linkCount", 20>> >>,
           << <<"linkCount", 20>>, <<"wordCount", 160>> >> }

DetectorHashes == {generateHash("<html>v1</html>"), generateHash("<html>v2</html>")}
DetectorTitles == {"Home", "home"}
DetectorUrls == {"https://acme.test/", "https://acme.test/new"}

\* objects handed to detectChanges: snapshots, content objects without a
\* hash property, objects without a metrics property, and null
DetectorInputs ==
  {[title |-> t, url |-> u, hash |-> h, metrics |-> m] :
     t \in DetectorTitles, u \in DetectorUrls, h \in DetectorHashes,
     m \in DetectorMetrics}
    \cup {[title |-> t, url |-> u, metrics |-> m] :
            t \in DetectorTitles, u \in DetectorUrls, m \in DetectorMetrics}
    \cup {[title |-> t, url |-> u, hash |-> h] :
            t \in DetectorTitles, u \in DetectorUrls, h \in DetectorHashes}
    \cup {[title |-> t, url |-> u] : t \in DetectorTitles, u \in DetectorUrls}
    \cup {Null}

InitDetect ==
  /\ competitors = << >>
  /\ snapshots = [id \in Ids |-> FileMissing]
  /\ browser = "none"
  /\ pc = "detector"
  /\ idx = 1
  /\ results = << >>
  /\ outcome = "none"
  /\ res = NoResult
  /\ currentContent = Null
  /\ previousSnapshot = Null
  /\ now = 0
  /\ lastWritten = [id \in Ids |-> Null]
  /\ scenario = [id \in Ids |-> "none"]
  /\ log = << >>
  /\ dcCurrent \in DetectorInputs \ {Null}
  /\ dcPrevious \in DetectorInputs
  /\ dcResult = NotRun
  /\ AgentAtRest
  /\ LoaderAtRest

\* detectChanges(current, previous) is called
CallDetectChanges ==
  /\ dcResult = NotRun
  /\ dcResult' = detectChanges(dcCurrent, dcPrevious)
  /\ UNCHANGED <<dcCurrent, dcPrevious>>
  /\ UNCHANGED <<monitorVars, agentVars, loaderVars>>

NextDetect == CallDetectChanges

SpecDetect == InitDetect /\ [][NextDetect]_vars

\* ------------------------------------ calculateChangeRate called on its own
TextAlphabet == {"a", "b", " "}

Texts ==
  UNION {[1..n -> TextAlphabet] : n \in 0..MaxTextLen}
    \cup {TextABCD, TextEFGH, TextABEF}

RateInputs == {[textContent |-> t] : t \in Texts}

InitRate ==
  /\ competitors = << >>
  /\ snapshots = [id \in Ids |-> FileMissing]
  /\ browser = "none"
  /\ pc = "changeRate"
  /\ idx = 1
  /\ results = << >>
  /\ outcome = "none"
  /\ res = NoResult
  /\ currentContent = Null
  /\ previousSnapshot = Null
  /\ now = 0
  /\ lastWritten = [id \in Ids |-> Null]
  /\ scenario = [id \in Ids |-> "none"]
  /\ log = << >>
  /\ dcCurrent \in RateInputs
  /\ dcPrevious \in RateInputs
  /\ dcResult = NotRun
  /\ AgentAtRest
  /\ LoaderAtRest

\* calculateChangeRate(current, previous) is called
CallCalculateChangeRate ==
  /\ dcResult = NotRun
  /\ dcResult' = calculateChangeRate(dcCurrent, dcPrevious)
  /\ UNCHANGED <<dcCurrent, dcPrevious>>
  /\ UNCHANGED <<monitorVars, agentVars, loaderVars>>

NextRate == CallCalculateChangeRate

SpecRate == InitRate /\ [][NextRate]_vars

\* ----------------------------------------- getPageContent called on its own
\* what the browser does for one call: whether puppeteer.launch, newPage with
\* setUserAgent and setViewport, goto with waitForTimeout, and the reads of
\* the page (content, title, evaluate, close) succeed
BrowserSteps ==
  [launch : BOOLEAN, newPage : BOOLEAN, goto : BOOLEAN, extract : BOOLEAN]

\* a rejected promise
Rejected == [rejected |-> TRUE]

\* a binding read before its declaration has been evaluated
Uninitialized == "<uninitialized>"

\* the name `url` inside the try block of getPageContent, read at a line of
\* the block: the block declares `const url = page.url()` at line 149, which
\* shadows the parameter in the whole block and is uninitialized above it
UrlInTryBlock(line, page) ==
  IF line < 149 THEN Uninitialized ELSE page.url

\* getPageContent(url) for a browser that behaves as steps say and would
\* show page at the url; time is the clock.  The ReferenceError of reading
\* an uninitialized binding is thrown inside the try and caught like the
\* errors of the browser.
getPageContent(url, steps, page, time) ==
  IF ~steps.launch THEN Rejected                      \* initBrowser, outside the try
  ELSE IF ~steps.newPage THEN Null
  ELSE IF UrlInTryBlock(138, page) = Uninitialized THEN Null   \* page.goto(url, ...)
  ELSE IF ~steps.goto THEN Null
  ELSE IF ~steps.extract THEN Null
  ELSE Content([page EXCEPT !.url = UrlInTryBlock(171, page)], time)

FetchInputs == {[url |-> u, steps |-> b] : u \in DetectorUrls, b \in BrowserSteps}

InitFetch ==
  /\ competitors = << >>
  /\ snapshots = [id \in Ids |-> FileMissing]
  /\ browser = "none"
  /\ pc = "getPageContent"
  /\ idx = 1
  /\ results = << >>
  /\ outcome = "none"
  /\ res = NoResult
  /\ currentContent = Null
  /\ previousSnapshot = Null
  /\ now = 0
  /\ lastWritten = [id \in Ids |-> Null]
  /\ scenario = [id \in Ids |-> "none"]
  /\ log = << >>
  /\ dcCurrent \in FetchInputs
  /\ dcPrevious \in Pages
  /\ dcResult = NotRun
  /\ AgentAtRest
  /\ LoaderAtRest

\* getPageContent(url) is called; dcPrevious is the page the browser would show
CallGetPageContent ==
  /\ dcResult = NotRun
  /\ dcResult' = getPageContent(dcCurrent.url, dcCurrent.steps, dcPrevious, 1)
  /\ UNCHANGED <<dcCurrent, dcPrevious>>
  /\ UNCHANGED <<monitorVars, agentVars, loaderVars>>

NextFetch == CallGetPageContent

SpecFetch == InitFetch /\ [][NextFetch]_vars

\* ------------------------------------------------------------- the agent
\* Each action is one synchronous stretch of JavaScript: from a trigger or
\* from the settling of an awaited promise up to the next await.

\* index of the first competitor at or after from that monitorAll works on
FirstMonitored(list, from) ==
  LET ks == {k \in from..Len(list) : MonitorsWebsite(list[k])}
  IN IF ks = {} THEN Len(list) + 1
     ELSE CHOOSE k \in ks : \A j \in ks : k <= j

\* the handler of a trigger whose runAnalysis call has settled with answer;
\* POST /analyze answers 200 with the result and 500 with the error message
Settled(call, answer) ==
  [call EXCEPT !.pc = "done", !.answer = answer,
               !.status = IF call.kind = "post"
                          THEN (IF answer = "resolved" THEN 200 ELSE 500)
                          ELSE 0]

\* runAnalysis has passed the guard and entered monitorAll, which stands at
\* the await of its first monitorWebsite call or at closeBrowser
Entered(kind) ==
  LET first == FirstMonitored(competitors, 1)
  IN [NoCall EXCEPT !.kind = kind, !.run = runs + 1, !.idx = first,
                    !.pc = IF first <= Len(competitors) THEN "fetch" ELSE "close"]

\* variant of runAnalysis: no test of isRunning
runAnalysis_NoGuard(c, kind) ==
  IF competitors = << >>
  THEN /\ calls' = [calls EXCEPT ![c] =
                      Settled([NoCall EXCEPT !.kind = kind, !.run = runs + 1],
                              "No competitors configured")]
       /\ isRunning' = FALSE
       /\ runs' = runs + 1
  ELSE /\ calls' = [calls EXCEPT ![c] = Entered(kind)]
       /\ isRunning' = TRUE
       /\ runs' = runs + 1

\* variant of runAnalysis: the test of isRunning stands inside the try, so
\* the finally block runs for the call that is turned away
runAnalysis_GuardInsideTry(c, kind) ==
  IF isRunning
  THEN /\ calls' = [calls EXCEPT ![c] =
                      Settled([NoCall EXCEPT !.kind = kind],
                              "Analysis already running")]
       /\ isRunning' = FALSE
       /\ UNCHANGED runs
  ELSE IF competitors = << >>
  THEN /\ calls' = [calls EXCEPT ![c] =
                      Settled([NoCall EXCEPT !.kind = kind, !.run = runs + 1],
                              "No competitors configured")]
       /\ isRunning' = FALSE
       /\ runs' = runs + 1
  ELSE /\ calls' = [calls EXCEPT ![c] = Entered(kind)]
       /\ isRunning' = TRUE
       /\ runs' = runs + 1

\* runAnalysis() up to its first await: the guard, isRunning = true,
\* getCompetitors(), and either the throw for an empty list (with the
\* finally block) or the call of monitorAll
runAnalysis(c, kind) ==
  IF isRunning
  THEN /\ calls' = [calls EXCEPT ![c] =
                      Settled([NoCall EXCEPT !.kind = kind],
                              "Analysis already running")]
       /\ UNCHANGED <<isRunning, runs>>
  ELSE IF competitors = << >>
  THEN /\ calls' = [calls EXCEPT ![c] =
                      Settled([NoCall EXCEPT !.kind = kind, !.run = runs + 1],
                              "No competitors configured")]
       /\ isRunning' = FALSE
       /\ runs' = runs + 1
  ELSE /\ calls' = [calls EXCEPT ![c] = Entered(kind)]
       /\ isRunning' = TRUE
       /\ runs' = runs + 1

\* the triggers fire one after the other
NextCaller(c) ==
  /\ calls[c].pc = "idle"
  /\ \A d \in Callers : d < c => calls[d].pc # "idle"

\* the cron callback: await this.runAnalysis()
TriggerCron(c) ==
  /\ NextCaller(c)
  /\ runAnalysis(c, "cron")
  /\ UNCHANGED <<lastRun, today, reportFiles, emailEnabled>>
  /\ UNCHANGED <<monitorVars, detectorVars, loaderVars>>

\* the handler of POST /analyze: 409 when isRunning, else runAnalysis()
TriggerPost(c) ==
  /\ NextCaller(c)
  /\ IF isRunning
     THEN /\ calls' = [calls EXCEPT ![c] =
                         [NoCall EXCEPT !.kind = "post", !.pc = "done", !.status = 409]]
          /\ UNCHANGED <<isRunning, runs>>
     ELSE runAnalysis(c, "post")
  /\ UNCHANGED <<lastRun, today, reportFiles, emailEnabled>>
  /\ UNCHANGED <<monitorVars, detectorVars, loaderVars>>

\* monitorWebsite of the entity at idx: getPageContent has settled; without
\* content the call returns and monitorAll waits before the next entity
AgentFetch(c) ==
  /\ calls[c].pc = "fetch"
  /\ \/ calls' = [calls EXCEPT ![c].pc = "load"]
     \/ calls' = [calls EXCEPT ![c].pc = "pause"]
  /\ UNCHANGED <<isRunning, lastRun, runs, today, reportFiles, emailEnabled>>
  /\ UNCHANGED <<monitorVars, detectorVars, loaderVars>>

\* loadPreviousSnapshot has settled; detection runs and saveSnapshot is called
AgentLoad(c) ==
  /\ calls[c].pc = "load"
  /\ calls' = [calls EXCEPT ![c].pc = "save"]
  /\ UNCHANGED <<isRunning, lastRun, runs, today, reportFiles, emailEnabled>>
  /\ UNCHANGED <<monitorVars, detectorVars, loaderVars>>

\* saveSnapshot has settled; monitorWebsite returns, monitorAll pushes the
\* result and waits two seconds
AgentSave(c) ==
  /\ calls[c].pc = "save"
  /\ calls' = [calls EXCEPT ![c].pc = "pause"]
  /\ UNCHANGED <<isRunning, lastRun, runs, today, reportFiles, emailEnabled>>
  /\ UNCHANGED <<monitorVars, detectorVars, loaderVars>>

\* the pause is over: the loop goes to the next monitored entity or to
\* closeBrowser
AgentPause(c) ==
  /\ calls[c].pc = "pause"
  /\ LET next == FirstMonitored(competitors, calls[c].idx + 1)
     IN calls' = [calls EXCEPT ![c].idx = next,
                               ![c].pc = IF next <= Len(competitors)
                                         THEN "fetch" ELSE "close"]
  /\ UNCHANGED <<isRunning, lastRun, runs, today, reportFiles, emailEnabled>>
  /\ UNCHANGED <<monitorVars, detectorVars, loaderVars>>

\* variant of AgentClose: a rejected monitorAll leaves runAnalysis without
\* the finally block
AgentClose_NoFinally(c) ==
  /\ calls[c].pc = "close"
  /\ \/ /\ calls' = [calls EXCEPT ![c].pc = "report",
                                  ![c].reportId = generateReportId(today)]
        /\ UNCHANGED isRunning
     \/ /\ calls' = [calls EXCEPT ![c] = Settled(calls[c], "monitoring failed")]
        /\ UNCHANGED isRunning
  /\ UNCHANGED <<lastRun, runs, today, reportFiles, emailEnabled>>
  /\ UNCHANGED <<monitorVars, detectorVars, loaderVars>>

\* closeBrowser has settled: monitorAll returns and generateWeeklyReport is
\* called, which takes its report id at once; or monitorAll rejects, and
\* runAnalysis rethrows after the finally block
AgentClose(c) ==
  /\ calls[c].pc = "close"
  /\ \/ /\ calls' = [calls EXCEPT ![c].pc = "report",
                                  ![c].reportId = generateReportId(today)]
        /\ UNCHANGED isRunning
     \/ /\ calls' = [calls EXCEPT ![c] = Settled(calls[c], "monitoring failed")]
        /\ isRunning' = FALSE
  /\ UNCHANGED <<lastRun, runs, today, reportFiles, emailEnabled>>
  /\ UNCHANGED <<monitorVars, detectorVars, loaderVars>>

\* generateWeeklyReport has settled: saveReports wrote the files named after
\* the report id and sendEmailReport is called when enabled, else the
\* analysis completes; or the report failed and runAnalysis rethrows
AgentReport(c) ==
  /\ calls[c].pc = "report"
  /\ \/ /\ reportFiles' = [reportFiles EXCEPT ![calls[c].reportId] = calls[c].run]
        /\ IF emailEnabled
           THEN /\ calls' = [calls EXCEPT ![c].pc = "email"]
                /\ UNCHANGED <<isRunning, lastRun>>
           ELSE /\ calls' = [calls EXCEPT ![c] = Settled(calls[c], "resolved")]
                /\ lastRun' = calls[c].run
                /\ isRunning' = FALSE
     \/ /\ calls' = [calls EXCEPT ![c] = Settled(calls[c], "report failed")]
        /\ isRunning' = FALSE
        /\ UNCHANGED <<lastRun, reportFiles>>
  /\ UNCHANGED <<runs, today, emailEnabled>>
  /\ UNCHANGED <<monitorVars, detectorVars, loaderVars>>

\* sendEmailReport has settled; it catches its own errors, so the analysis
\* completes whether the mail was sent or not
AgentEmail(c) ==
  /\ calls[c].pc = "email"
  /\ calls' = [calls EXCEPT ![c] = Settled(calls[c], "resolved")]
  /\ lastRun' = calls[c].run
  /\ isRunning' = FALSE
  /\ UNCHANGED <<runs, today, reportFiles, emailEnabled>>
  /\ UNCHANGED <<monitorVars, detectorVars, loaderVars>>

\* midnight
DayPasses ==
  /\ pc = "agent"
  /\ today < MaxDay
  /\ today' = today + 1
  /\ UNCHANGED <<isRunning, lastRun, calls, runs, reportFiles, emailEnabled>>
  /\ UNCHANGED <<monitorVars, detectorVars, loaderVars>>

\* what getCompetitors() can return: no competitor, or up to MaxCompetitors
\* competitors with the ids "c1", "c2", ... in this order, each with or
\* without website monitoring
AgentLists ==
  {<< >>} \cup {list \in CompetitorLists :
                  \A k \in 1..Len(list) :
                    /\ list[k].id = <<"c1", "c2", "c3">>[k]
                    /\ "monitoring" \in DOMAIN list[k]}

InitAgent ==
  /\ competitors \in AgentLists
  /\ snapshots = [id \in Ids |-> FileMissing]
  /\ browser = "none"
  /\ pc = "agent"
  /\ idx = 1
  /\ results = << >>
  /\ outcome = "none"
  /\ res = NoResult
  /\ currentContent = Null
  /\ previousSnapshot = Null
  /\ now = 0
  /\ lastWritten = [id \in Ids |-> Null]
  /\ scenario = [id \in Ids |-> "none"]
  /\ log = << >>
  /\ dcCurrent = Null
  /\ dcPrevious = Null
  /\ dcResult = NotRun
  /\ isRunning = FALSE
  /\ lastRun = 0
  /\ calls = [c \in Callers |-> NoCall]
  /\ runs = 0
  /\ today = 1
  /\ reportFiles = [id \in ReportIds |-> 0]
  /\ emailEnabled \in BOOLEAN
  /\ LoaderAtRest

\* the settling of a promise an analysis waits for
AgentProgress ==
  \E c \in Callers :
    \/ AgentFetch(c)
    \/ AgentLoad(c)
    \/ AgentSave(c)
    \/ AgentPause(c)
    \/ AgentClose(c)
    \/ AgentReport(c)
    \/ AgentEmail(c)

NextAgent ==
  \/ \E c \in Callers : TriggerCron(c)
  \/ \E c \in Callers : TriggerPost(c)
  \/ \E c \in Callers : AgentFetch(c)
  \/ \E c \in Callers : AgentLoad(c)
  \/ \E c \in Callers : AgentSave(c)
  \/ \E c \in Callers : AgentPause(c)
  \/ \E c \in Callers : AgentClose(c)
  \/ \E c \in Callers : AgentReport(c)
  \/ \E c \in Callers : AgentEmail(c)
  \/ DayPasses

SpecAgent == InitAgent /\ [][NextAgent]_vars

\* every awaited promise of an analysis settles: the browser calls and the
\* mail transport have timeouts, the file calls end
SpecAgentFair == SpecAgent /\ WF_vars(AgentProgress)

\* ------------------------------------------------------------ the loader
\* Each action is one synchronous stretch of a loader method, or the file
\* write that an await of fs.writeFile stands for.

Names == {"Acme", "Beta"}

\* name.toLowerCase() with the runs of other characters turned into "-"
BaseId(name) ==
  CASE name = "Acme" -> "acme"
    [] name = "Beta" -> "beta"
    [] OTHER         -> ""

SuppliedIds == {<< "acme", 0 >>, << "beta", 0 >>}

Websites == {"https://acme.test/", ""}

\* getCompetitorById(id) on a list
HasId(list, id) == \E k \in 1..Len(list) : list[k].id = id

\* the while loop of generateCompetitorId: base, base-1, base-2, ... until
\* the id is free in the list
RECURSIVE FreeIdFrom(_, _, _, _)
FreeIdFrom(list, baseId, id, counter) ==
  IF HasId(list, id)
  THEN FreeIdFrom(list, baseId, << baseId, counter >>, counter + 1)
  ELSE id

generateCompetitorId(list, name) ==
  FreeIdFrom(list, BaseId(name), << BaseId(name), 0 >>, 1)

\* getCompetitors(): the cached list, read from the file when it is empty
getCompetitors == IF cache = << >> THEN competitorsFile ELSE cache

\* { ...old, ...updates }
Merge(old, updates) ==
  [k \in DOMAIN old \cup DOMAIN updates |->
     IF k \in DOMAIN updates THEN updates[k] ELSE old[k]]

\* index of the competitor with the id in a list, 0 for findIndex's -1
FindIndex(list, id) ==
  IF HasId(list, id) THEN CHOOSE k \in 1..Len(list) :
                            /\ list[k].id = id
                            /\ \A j \in 1..(k - 1) : list[j].id # id
  ELSE 0

\* list.splice(index, 1)
Splice(list, index) ==
  [k \in 1..(Len(list) - 1) |-> IF k < index THEN list[k] ELSE list[k + 1]]

UpdateSets == {[name |-> n] : n \in Names} \cup {[id |-> i] : i \in SuppliedIds}

\* a loader call is between its start and its end
InProgress(o) == ops[o].pc \notin {"idle", "done"}

\* the calls start one after the other (they may overlap)
NextOp(o) ==
  /\ ops[o].pc = "idle"
  /\ \A q \in OpSlots : q < o => ops[q].pc # "idle"

Overlaps(o) == overlapped \/ \E q \in OpSlots \ {o} : InProgress(q)

\* addCompetitor(competitor) up to await fs.readFile: validation, id
\* generation, the duplicate test against the cached list, default settings
AddCompetitorStart(o) ==
  /\ NextOp(o)
  /\ \E name \in Names, website \in Websites, given \in SuppliedIds \cup {NoId} :
       LET list == getCompetitors
           id   == IF given = NoId THEN generateCompetitorId(list, name) ELSE given
           competitor == [id |-> id, name |-> name, website |-> website]
       IN /\ cache' = IF website = "" THEN cache ELSE list
          /\ ops' = [ops EXCEPT ![o] =
                       IF website = "" \/ HasId(list, id)
                       THEN [NoOp EXCEPT !.op = "add", !.pc = "done",
                                         !.arg = competitor, !.result = "error"]
                       ELSE [NoOp EXCEPT !.op = "add", !.pc = "read",
                                         !.arg = competitor]]
  /\ overlapped' = Overlaps(o)
  /\ UNCHANGED competitorsFile
  /\ UNCHANGED <<monitorVars, detectorVars, agentVars>>

\* updateCompetitor(id, updates) up to await fs.readFile
UpdateCompetitorStart(o) ==
  /\ NextOp(o)
  /\ \E id \in SuppliedIds, updates \in UpdateSets :
       ops' = [ops EXCEPT ![o] =
                 [NoOp EXCEPT !.op = "update", !.pc = "read", !.arg.id = id,
                              !.updates = updates]]
  /\ overlapped' = Overlaps(o)
  /\ UNCHANGED <<competitorsFile, cache>>
  /\ UNCHANGED <<monitorVars, detectorVars, agentVars>>

\* removeCompetitor(id) up to await fs.readFile
RemoveCompetitorStart(o) ==
  /\ NextOp(o)
  /\ \E id \in SuppliedIds :
       ops' = [ops EXCEPT ![o] =
                 [NoOp EXCEPT !.op = "remove", !.pc = "read", !.arg.id = id]]
  /\ overlapped' = Overlaps(o)
  /\ UNCHANGED <<competitorsFile, cache>>
  /\ UNCHANGED <<monitorVars, detectorVars, agentVars>>

\* the file has been read and parsed: the method changes its own copy of the
\* array and calls fs.writeFile, or throws when the id is not found
LoaderRead(o) ==
  /\ ops[o].pc = "read"
  /\ LET data  == competitorsFile
         index == FindIndex(data, ops[o].arg.id)
     IN ops' = [ops EXCEPT ![o] =
          CASE ops[o].op = "add"
                 -> [ops[o] EXCEPT !.jsonData = Append(data, ops[o].arg),
                                   !.pc = "write"]
            [] ops[o].op = "update" /\ index # 0
                 -> [ops[o] EXCEPT !.jsonData =
                                      [data EXCEPT ![index] =
                                         Merge(data[index], ops[o].updates)],
                                   !.pc = "write"]
            [] ops[o].op = "remove" /\ index # 0
                 -> [ops[o] EXCEPT !.jsonData = Splice(data, index),
                                   !.pc = "write"]
            [] OTHER
                 -> [ops[o] EXCEPT !.pc = "done", !.result = "error"]]
  /\ UNCHANGED <<competitorsFile, cache, overlapped>>
  /\ UNCHANGED <<monitorVars, detectorVars, agentVars>>

\* fs.writeFile replaces the file, or fails and the method throws
LoaderWrite(o) ==
  /\ ops[o].pc = "write"
  /\ \/ /\ competitorsFile' = ops[o].jsonData
        /\ ops' = [ops EXCEPT ![o].pc = "written"]
     \/ /\ ops' = [ops EXCEPT ![o].pc = "done", ![o].result = "error"]
        /\ UNCHANGED competitorsFile
  /\ UNCHANGED <<cache, overlapped>>
  /\ UNCHANGED <<monitorVars, detectorVars, agentVars>>

\* after the write: this.competitors = jsonData.competitors; return true
LoaderFinish(o) ==
  /\ ops[o].pc = "written"
  /\ cache' = ops[o].jsonData
  /\ ops' = [ops EXCEPT ![o].pc = "done", ![o].result = "ok"]
  /\ UNCHANGED <<competitorsFile, overlapped>>
  /\ UNCHANGED <<monitorVars, detectorVars, agentVars>>

\* competitors files with pairwise distinct ids
LoaderFiles ==
  { << >>,
    << [id |-> << "acme", 0 >>, name |-> "Acme", website |-> "https://acme.test/"] >>,
    << [id |-> << "acme", 0 >>, name |-> "Acme", website |-> "https://acme.test/"],
       [id |-> << "beta", 0 >>, name |-> "Beta", website |-> "https://acme.test/"] >> }

InitLoader ==
  /\ competitors = << >>
  /\ snapshots = [id \in Ids |-> FileMissing]
  /\ browser = "none"
  /\ pc = "loader"
  /\ idx = 1
  /\ results = << >>
  /\ outcome = "none"
  /\ res = NoResult
  /\ currentContent = Null
  /\ previousSnapshot = Null
  /\ now = 0
  /\ lastWritten = [id \in Ids |-> Null]
  /\ scenario = [id \in Ids |-> "none"]
  /\ log = << >>
  /\ dcCurrent = Null
  /\ dcPrevious = Null
  /\ dcResult = NotRun
  /\ AgentAtRest
  /\ competitorsFile \in LoaderFiles
  /\ cache \in {<< >>, competitorsFile}
  /\ ops = [o \in OpSlots |-> NoOp]
  /\ overlapped = FALSE

NextLoader ==
  \/ \E o \in OpSlots : AddCompetitorStart(o)
  \/ \E o \in OpSlots : UpdateCompetitorStart(o)
  \/ \E o \in OpSlots : RemoveCompetitorStart(o)
  \/ \E o \in OpSlots : LoaderRead(o)
  \/ \E o \in OpSlots : LoaderWrite(o)
  \/ \E o \in OpSlots : LoaderFinish(o)

SpecLoader == InitLoader /\ [][NextLoader]_vars

\* ------------------------------------------------------------ properties
Last(s) == s[Len(s)]

\* id of the competitor monitorWebsite is working on
Entity == competitors[idx].id

\* the snapshot the monitorWebsite call in progress hands to saveSnapshot
ThisSnapshot == Snapshot(currentContent, generateHash(currentContent.html), now)

\* the fetch of the call in progress delivered content and the call is over
FetchedAndDone == pc = "push" /\ currentContent # Null

SameContent(content, snapshot) ==
  /\ content.html = snapshot.html
  /\ content.title = snapshot.title
  /\ content.url = snapshot.url
  /\ content.textContent = snapshot.textContent
  /\ content.metrics = snapshot.metrics

\* C1: a run that fetches content identical (html, title, url, text,
\* metrics) to the stored baseline returns zero change records.
C1_IdenticalSecondRunNoChanges ==
  (FetchedAndDone /\ Truthy(previousSnapshot)
     /\ SameContent(currentContent, previousSnapshot))
    => res.changes = << >>

\* C2 as stated: with no stored snapshot and a successful fetch the result
\* has no changes and afterwards the store holds a snapshot of the entity.
C2_FirstObservationStoresBaseline ==
  (FetchedAndDone /\ previousSnapshot = Null)
    => (res.changes = << >> /\ snapshots[Entity].state = "json")

\* C2 amended: with no stored snapshot and a successful fetch the result has
\* no changes and no error; the store afterwards holds the snapshot of this
\* run when the file write succeeded, and no readable snapshot when it failed.
C2_FirstObservation ==
  (FetchedAndDone /\ previousSnapshot = Null)
    => /\ res.changes = << >>
       /\ res.errors = << >>
       /\ Last(log) = "written" => snapshots[Entity] = JSONstringify(ThisSnapshot)
       /\ Last(log) # "written" => snapshots[Entity].state # "json"

C2_Witness ==
  /\ FetchedAndDone
  /\ previousSnapshot = Null
  /\ log = << "fetch", "load:missing", "written" >>
  /\ snapshots[Entity].state = "json"
  /\ res.changes = << >>

\* C3: for two snapshots with identical hash, title, url and metrics map,
\* detectChanges returns the empty sequence.
C3_IdenticalSnapshotsNoChanges ==
  (/\ dcResult # NotRun
   /\ dcPrevious # Null
   /\ "metrics" \in DOMAIN dcCurrent
   /\ "metrics" \in DOMAIN dcPrevious
   /\ Prop(dcCurrent, "hash") = Prop(dcPrevious, "hash")
   /\ dcCurrent.title = dcPrevious.title
   /\ dcCurrent.url = dcPrevious.url
   /\ dcCurrent.metrics = dcPrevious.metrics)
    => dcResult = Ok(<< >>)

C3_Witness ==
  /\ dcResult = Ok(<< >>)
  /\ dcPrevious # Null
  /\ "hash" \in DOMAIN dcCurrent
  /\ "metrics" \in DOMAIN dcCurrent
  /\ dcCurrent = dcPrevious
  /\ Len(dcCurrent.metrics) = 2

\* C4: the previous snapshot handed to the detector for an entity is the
\* snapshot of the latest successful write for that entity id, whatever
\* runs (failed fetches, failed writes, other entities) came in between.
C4_PreviousIsLatestWritten ==
  (pc = "detect" /\ Truthy(previousSnapshot))
    => previousSnapshot = lastWritten[Entity]

C4_Witness ==
  /\ pc = "detect"
  /\ Truthy(previousSnapshot)
  /\ previousSnapshot.timestamp + 1 < now
  /\ \E other \in Ids \ {Entity} :
       /\ lastWritten[other] # Null
       /\ lastWritten[other].timestamp > previousSnapshot.timestamp

\* the steps of a call whose fetch succeeded: load, detect when a previous
\* snapshot was loaded, then one write
StepsInOrder ==
  \E io \in WriteOutcomes :
    IF Truthy(previousSnapshot)
    THEN log = << "fetch", "load:json", "detect", io >>
    ELSE log \in { << "fetch", "load:missing", io >>, << "fetch", "load:corrupt", io >> }

\* C5 as stated: in a run whose fetch succeeds the snapshot is saved only
\* after load and detection, and after the run the store holds the snapshot
\* of this run whatever the old one was.
C5_SaveAfterCompareAlwaysStored ==
  FetchedAndDone
    => (StepsInOrder /\ snapshots[Entity] = JSONstringify(ThisSnapshot))

\* C5 amended: the snapshot is saved only after load and detection; after
\* the run the store holds the snapshot of this run if the write succeeded,
\* the old file if the write failed, an unreadable file if it was truncated.
C5_SaveAfterCompare ==
  FetchedAndDone
    => /\ StepsInOrder
       /\ Last(log) = "written" => snapshots[Entity] = JSONstringify(ThisSnapshot)
       /\ Last(log) = "failed"
            => loadPreviousSnapshot(snapshots, Entity) = previousSnapshot
       /\ Last(log) = "truncated" => snapshots[Entity] = FileCorrupt

C5_Witness ==
  /\ FetchedAndDone
  /\ log = << "fetch", "load:json", "detect", "written" >>
  /\ previousSnapshot.html # currentContent.html
  /\ snapshots[Entity] = JSONstringify(ThisSnapshot)

\* C6: a monitorWebsite call whose fetch yields no content ends at once with
\* a result that carries the fetch error and no changes; no load, detection
\* or save takes place and the snapshot files stay as they were.
C6_FetchFailureKeepsSnapshot ==
  [][(pc = "fetch" /\ currentContent' = Null)
       => /\ pc' = "push"
          /\ res'.errors \in { << "Failed to fetch page content" >>,
                               << "Failed to launch the browser process" >> }
          /\ browser' = "open" => res'.errors = << "Failed to fetch page content" >>
          /\ res'.changes = << >>
          /\ log' = << "fetch" >>
          /\ snapshots' = snapshots]_vars

C6_Witness ==
  /\ pc = "push"
  /\ currentContent = Null
  /\ res.errors = << "Failed to fetch page content" >>
  /\ snapshots[Entity].state = "json"
  /\ snapshots[Entity].doc = lastWritten[Entity]

BadRecordRun == FetchedAndDone /\ log[2] \in {"load:missing", "load:corrupt"}

C8_WriteFailureReported ==
  (FetchedAndDone /\ Last(log) \in {"failed", "truncated"})
    => res.errors # << >>

\* the monitored competitors among the first n of the list, in list order
RECURSIVE MonitoredNames(_, _)
MonitoredNames(list, n) ==
  IF n = 0 THEN << >>
  ELSE IF MonitorsWebsite(list[n])
       THEN Append(MonitoredNames(list, n - 1), list[n].name)
       ELSE MonitoredNames(list, n - 1)

ResultNames == [k \in 1..Len(results) |-> results[k].competitor]

C10_AbsentPreviousNoChanges ==
  (dcResult # NotRun /\ dcPrevious = Null) => dcResult = Ok(<< >>)

\* ------------------------------------------ properties of the detector alone
\* detectChanges has been called with two objects (no null)
DetectorCalled == dcResult # NotRun /\ dcPrevious # Null

HasMetrics(obj) == "metrics" \in DOMAIN obj

\* detectChanges has been called with two objects that have a metrics map
BothHaveMetrics ==
  DetectorCalled /\ HasMetrics(dcCurrent) /\ HasMetrics(dcPrevious)

\* the metric records of a sequence of change records, in their order
MetricRecords(changes) == SelectSeq(changes, LAMBDA r : r.type = "metric")

\* the content/title/url records of a sequence of change records
OtherRecords(changes) == SelectSeq(changes, LAMBDA r : r.type # "metric")

\* the content/title/url records the two objects call for
ExpectedOtherRecords(current, previous) ==
  (IF Prop(current, "hash") # Prop(previous, "hash")
   THEN << ContentChange >> ELSE << >>)
  \o (IF Prop(current, "title") # Prop(previous, "title")
      THEN << TitleChange(current, previous) >> ELSE << >>)
  \o (IF Prop(current, "url") # Prop(previous, "url")
      THEN << UrlChange(current, previous) >> ELSE << >>)

\* C11: when the current or the previous object has no metrics map,
\* detectChanges does not fail, returns no metric records and still returns
\* the content/title/url records.
C11_MissingMetricsTolerated ==
  (DetectorCalled /\ (~HasMetrics(dcCurrent) \/ ~HasMetrics(dcPrevious)))
    => /\ ~dcResult.threw
       /\ MetricRecords(dcResult.value) = << >>
       /\ OtherRecords(dcResult.value) = ExpectedOtherRecords(dcCurrent, dcPrevious)

\* C12: with a metrics map on both sides detectChanges does not fail, and
\* every metric record it returns names a key present in both maps; a key
\* of only one map has no record.
C12_OnlyKeysOnBothSides ==
  BothHaveMetrics
    => /\ ~dcResult.threw
       /\ \A r \in Range(MetricRecords(dcResult.value)) :
            /\ HasKey(dcCurrent.metrics, r.metric)
            /\ HasKey(dcPrevious.metrics, r.metric)

\* current has a key previous lacks; the shared key has its record
C12_Witness ==
  /\ BothHaveMetrics
  /\ dcCurrent.metrics = << <<"wordCount", 160>>, <<"linkCount", 20>> >>
  /\ dcPrevious.metrics = << <<"wordCount", 100>> >>
  /\ ~dcResult.threw
  /\ Len(MetricRecords(dcResult.value)) = 1
  /\ MetricRecords(dcResult.value)[1].metric = "wordCount"

\* the metric records of a result that name the given key
RecordsOf(changes, metric) ==
  SelectSeq(changes, LAMBDA r : r.type = "metric" /\ r.metric = metric)

\* C13: for a key of both maps with a previous value other than 0 there is
\* a record iff |current - previous| / previous > 0.10 (at most one), its
\* severity is high iff the quotient is > 0.50 and medium otherwise; for
\* previous 100: 109 and 110 give none, 111 and 150 one medium, 160 one high.
C13_MetricThreshold ==
  BothHaveMetrics
    => /\ ~dcResult.threw
       /\ \A k \in 1..Len(dcCurrent.metrics) :
            LET metric == dcCurrent.metrics[k][1]
                cur    == dcCurrent.metrics[k][2]
                recs   == RecordsOf(dcResult.value, metric)
            IN (HasKey(dcPrevious.metrics, metric)
                  /\ ValueOf(dcPrevious.metrics, metric) # 0)
                 => LET prev == ValueOf(dcPrevious.metrics, metric)
                    IN /\ Len(recs) = (IF Abs(cur - prev) * 10 > prev THEN 1 ELSE 0)
                       /\ \A i \in 1..Len(recs) :
                            recs[i].severity =
                              (IF Abs(cur - prev) * 2 > prev THEN "high" ELSE "medium")
                       /\ (prev = 100 /\ cur \in {109, 110}) => recs = << >>
                       /\ (prev = 100 /\ cur \in {111, 150})
                            => (Len(recs) = 1 /\ recs[1].severity = "medium")
                       /\ (prev = 100 /\ cur = 160)
                            => (Len(recs) = 1 /\ recs[1].severity = "high")

\* previous 100, current 111: exactly one record, of severity medium
C13_Witness ==
  /\ BothHaveMetrics
  /\ dcCurrent.metrics = << <<"wordCount", 111>> >>
  /\ dcPrevious.metrics = << <<"wordCount", 100>> >>
  /\ ~dcResult.threw
  /\ Len(MetricRecords(dcResult.value)) = 1
  /\ MetricRecords(dcResult.value)[1].severity = "medium"

\* C14: a key whose previous value is 0 has no metric record, whatever its
\* current value.
C14_PreviousZeroNoRecord ==
  BothHaveMetrics
    => /\ ~dcResult.threw
       /\ \A r \in Range(MetricRecords(dcResult.value)) :
            HasKey(dcPrevious.metrics, r.metric)
              => ValueOf(dcPrevious.metrics, r.metric) # 0

\* previous 0, current 160: no record
C14_Witness ==
  /\ BothHaveMetrics
  /\ dcCurrent.metrics = << <<"wordCount", 160>> >>
  /\ dcPrevious.metrics = << <<"wordCount", 0>> >>
  /\ ~dcResult.threw
  /\ MetricRecords(dcResult.value) = << >>

\* the two objects are snapshots (hash and metrics map present) that differ
\* in the title and in nothing else
DifferOnlyInTitle ==
  /\ DetectorCalled
  /\ HasMetrics(dcPrevious) /\ "hash" \in DOMAIN dcPrevious
  /\ dcCurrent.title # dcPrevious.title
  /\ dcCurrent = [dcPrevious EXCEPT !.title = dcCurrent.title]

\* C15: for two snapshots that differ only in the title, be it only in the
\* case of a letter, detectChanges returns exactly one record, of type title
\* and severity high.
C15_TitleExactCaseSensitive ==
  DifferOnlyInTitle
    => /\ ~dcResult.threw
       /\ Len(dcResult.value) = 1
       /\ dcResult.value[1].type = "title"
       /\ dcResult.value[1].severity = "high"
       /\ dcResult.value[1].description =
            [from |-> dcPrevious.title, to |-> dcCurrent.title]

\* previous "Home", current "home"
C15_Witness ==
  /\ DifferOnlyInTitle
  /\ dcPrevious.title = "Home"
  /\ dcCurrent.title = "home"
  /\ ~dcResult.threw
  /\ Len(dcResult.value) = 1

\* the call in progress is the third run of the scenario: the latest write
\* for the entity came from a run that repeated the baseline, and the page
\* fetched now differs from the stored snapshot in the title and in nothing
\* else
ThirdRunTitleOnly ==
  /\ pc = "save"
  /\ scenario[Entity] = "repeated"
  /\ Truthy(previousSnapshot)
  /\ currentContent.title # previousSnapshot.title
  /\ SameContent([currentContent EXCEPT !.title = previousSnapshot.title],
                 previousSnapshot)

\* C16: the third run, after a baseline run and a run that repeated it, in
\* which only the title of the page changed, returns exactly one change
\* record, of type title.
C16_ThirdRunOnlyTitleRecord ==
  [][(ThirdRunTitleOnly /\ pc' = "push")
       => res'.changes = << TitleChange(currentContent, previousSnapshot) >>]_vars

\* rank of a record type in the order content, title, url, metric
TypeRank(type) ==
  CASE type = "content" -> 1
    [] type = "title"   -> 2
    [] type = "url"     -> 3
    [] type = "metric"  -> 4

\* C17: in the sequence detectChanges returns a content record comes before
\* a title record, a title record before a url record, and every metric
\* record after all records of the other types; there is at most one record
\* of each of the types content, title and url.
C17_FixedRecordOrder ==
  (DetectorCalled /\ ~dcResult.threw)
    => \A i, j \in 1..Len(dcResult.value) :
         i < j => LET ri == TypeRank(dcResult.value[i].type)
                      rj == TypeRank(dcResult.value[j].type)
                  IN ri < rj \/ (ri = 4 /\ rj = 4)

\* a result with a record of each type
C17_Witness ==
  /\ DetectorCalled
  /\ ~dcResult.threw
  /\ Len(dcResult.value) >= 4
  /\ dcResult.value[1].type = "content"
  /\ dcResult.value[2].type = "title"
  /\ dcResult.value[3].type = "url"
  /\ dcResult.value[4].type = "metric"

\* the maps with the key/value pairs of the given map, in every key order
Reorderings(metrics) ==
  {m \in DetectorMetrics : Len(m) = Len(metrics) /\ Range(m) = Range(metrics)}

\* position of a key in a map
Position(metrics, metric) ==
  CHOOSE k \in 1..Len(metrics) : metrics[k][1] = metric

\* C18 as stated: a current metrics map with the same key/value pairs in
\* another insertion order yields the same sequence of metric records
\* against the same previous map.
C18_OrderByMetricName ==
  BothHaveMetrics
    => \A m \in Reorderings(dcCurrent.metrics) :
         LET other == detectChanges([dcCurrent EXCEPT !.metrics = m], dcPrevious)
         IN /\ ~other.threw
            /\ MetricRecords(other.value) = MetricRecords(dcResult.value)

\* C18 amended: the metric records follow the insertion order of the keys
\* of current.metrics; a current map with the same pairs in another
\* insertion order yields the same set of metric records, in the order of
\* its own keys.
C18_OrderByInsertion ==
  BothHaveMetrics
    => LET recs == MetricRecords(dcResult.value)
       IN /\ \A i, j \in 1..Len(recs) :
               i < j => Position(dcCurrent.metrics, recs[i].metric)
                          < Position(dcCurrent.metrics, recs[j].metric)
          /\ \A m \in Reorderings(dcCurrent.metrics) :
               LET other == detectChanges([dcCurrent EXCEPT !.metrics = m],
                                          dcPrevious)
               IN /\ ~other.threw
                  /\ Range(MetricRecords(other.value)) = Range(recs)

\* wordCount inserted before linkCount: the wordCount record comes first
C18_Witness ==
  /\ BothHaveMetrics
  /\ dcCurrent.metrics = << <<"wordCount", 160>>, <<"linkCount", 20>> >>
  /\ dcPrevious.metrics = << <<"wordCount", 100>>, <<"linkCount", 10>> >>
  /\ ~dcResult.threw
  /\ Len(MetricRecords(dcResult.value)) = 2
  /\ MetricRecords(dcResult.value)[1].metric = "wordCount"
  /\ MetricRecords(dcResult.value)[2].metric = "linkCount"

\* C19 as stated: every metric record carries the metric name and the
\* signed quotient (current - previous) / previous, negative for a decrease.
C19_SignedChange ==
  (BothHaveMetrics /\ ~dcResult.threw)
    => \A r \in Range(MetricRecords(dcResult.value)) :
         /\ HasKey(dcCurrent.metrics, r.metric)
         /\ HasKey(dcPrevious.metrics, r.metric)
         /\ r.change.num = ValueOf(dcCurrent.metrics, r.metric)
                             - ValueOf(dcPrevious.metrics, r.metric)
         /\ r.change.den = ValueOf(dcPrevious.metrics, r.metric)

\* C19 amended: every metric record carries the metric name and the
\* quotient |current - previous| / previous, which is positive for a
\* decrease as for an increase.
C19_AbsoluteChange ==
  (BothHaveMetrics /\ ~dcResult.threw)
    => \A r \in Range(MetricRecords(dcResult.value)) :
         /\ HasKey(dcCurrent.metrics, r.metric)
         /\ HasKey(dcPrevious.metrics, r.metric)
         /\ r.change.num = Abs(ValueOf(dcCurrent.metrics, r.metric)
                                 - ValueOf(dcPrevious.metrics, r.metric))
         /\ r.change.den = ValueOf(dcPrevious.metrics, r.metric)
         /\ r.change.num > 0 /\ r.change.den > 0

\* a decrease from 100 to 40 is recorded with the change 60/100
C19_Witness ==
  /\ BothHaveMetrics
  /\ dcCurrent.metrics = << <<"wordCount", 40>> >>
  /\ dcPrevious.metrics = << <<"wordCount", 100>> >>
  /\ ~dcResult.threw
  /\ Len(MetricRecords(dcResult.value)) = 1
  /\ MetricRecords(dcResult.value)[1].change = [num |-> 60, den |-> 100]

\* ---------------------------------------- properties of calculateChangeRate
RateCalled == pc = "changeRate" /\ dcResult # NotRun

\* C20: for every pair of texts, the empty text and texts with repeated
\* words included, the rate calculateChangeRate returns is a number of the
\* closed interval [0, 1].
C20_ChangeRateInUnitInterval ==
  RateCalled
    => /\ dcResult.den > 0
       /\ 0 <= dcResult.num
       /\ dcResult.num <= dcResult.den

\* a text that repeats a word against a text with that word once: rate 0
C20_Witness ==
  /\ RateCalled
  /\ dcCurrent.textContent = <<"a", " ", "a">>
  /\ dcPrevious.textContent = <<"a">>
  /\ dcResult = [num |-> 0, den |-> 2]

\* the words of a text: its maximal runs of characters other than white space
Words(text) == SelectSeq(Split(text), LAMBDA w : w # << >>)

\* C21: the rate is 0 when the two texts are equal, and it is 1 when the
\* two texts, at least one of which has a word, have no word in common.
C21_RateZeroWhenEqualOneWhenDisjoint ==
  RateCalled
    => /\ dcCurrent.textContent = dcPrevious.textContent => dcResult.num = 0
       /\ (Words(dcCurrent.textContent) \o Words(dcPrevious.textContent) # << >>
             /\ Range(Words(dcCurrent.textContent))
                  \cap Range(Words(dcPrevious.textContent)) = {})
            => dcResult.num = dcResult.den

CallComplete ==
  \/ Last(log) \in WriteOutcomes
  \/ (log = << "fetch" >> /\ res.errors # << >>)
  \/ (Last(log) = "detect" /\ res.errors # << >>)

\* C24: monitorAll works on one entity at a time, in list order: the call
\* for an entity starts only when every monitored entity before it in the
\* list has its result in results and the call for the entity before it has
\* ended (fetch failed, detection failed, or the save was made); a result is
\* appended after the results of the entities before it, and the calls for
\* later entities start later.
C24_OneEntityAtATimeInListOrder ==
  [][/\ (pc # "fetch" /\ pc' = "fetch")
          => /\ pc = "loop"
             /\ ResultNames = MonitoredNames(competitors, idx - 1)
             /\ results # << >> => (CallComplete /\ Last(results) = res)
     /\ (pc = "push" /\ pc' # "push")
          => /\ CallComplete
             /\ Len(results') = Len(results) + 1
             /\ [k \in 1..Len(results') |-> results'[k].competitor]
                  = MonitoredNames(competitors, idx)
             /\ \A k \in 1..Len(results) :
                  results'[k].timestamp < Last(results').timestamp]_vars

\* the result of the second of two monitored competitors has been appended
\* after the first one's, whose snapshot was saved before
C24_Witness ==
  /\ pc = "loop"
  /\ idx = 3
  /\ Len(results) = 2
  /\ results[1].competitor = competitors[1].name
  /\ results[2].competitor = competitors[2].name
  /\ results[1].timestamp < results[2].timestamp
  /\ lastWritten[competitors[1].id] # Null
  /\ lastWritten[competitors[2].id] # Null
  /\ lastWritten[competitors[1].id].timestamp < lastWritten[competitors[2].id].timestamp

\* ------------------------------------------- properties of getPageContent
FetchCalled == pc = "getPageContent" /\ dcResult # NotRun

\* C25: getPageContent returns a content object (html, title, url, text,
\* metrics, timestamp of the page) whenever every browser step succeeds, and
\* returns null only when a browser step failed.
C25_ContentUnlessBrowserError ==
  FetchCalled
    => /\ (dcCurrent.steps.launch /\ dcCurrent.steps.newPage
             /\ dcCurrent.steps.goto /\ dcCurrent.steps.extract)
            => (dcResult # Null /\ dcResult = Content(dcPrevious, 1))
       /\ dcResult = Null
            => ~(dcCurrent.steps.launch /\ dcCurrent.steps.newPage
                   /\ dcCurrent.steps.goto /\ dcCurrent.steps.extract)

\* ------------------------------------------------- properties of the agent
\* the handler of trigger c is inside the fetch-compare-save sequence of an
\* entity
InFlight(c) == calls[c].pc \in {"fetch", "load", "save"}

InFlightId(c) == competitors[calls[c].idx].id

\* a trigger that was turned away because an analysis was running
TurnedAway(c) ==
  /\ calls[c].pc = "done"
  /\ calls[c].run = 0
  /\ calls[c].status = 409 \/ calls[c].answer = "Analysis already running"

\* C23: whatever the order of cron ticks, POST /analyze requests and the
\* steps of the analyses, no two handlers are inside the fetch-compare-save
\* sequence of the same entity id at the same time.
C23_OneSequencePerEntity ==
  \A c, d \in Callers :
    (c # d /\ InFlight(c) /\ InFlight(d)) => InFlightId(c) # InFlightId(d)

\* a cron tick arrived while an entity was in flight and was turned away
C23_Witness ==
  \E c, d \in Callers :
    /\ InFlight(c)
    /\ calls[c].pc = "save"
    /\ calls[c].idx = Len(competitors)
    /\ TurnedAway(d) /\ calls[d].kind = "cron"

\* the handlers whose analysis passed the guard and has not ended
Analysing == {c \in Callers : calls[c].pc \notin {"idle", "done"}}

\* C26: at most one analysis is under way; a trigger that fires while
\* isRunning is true ends at once, a runAnalysis call with the error
\* 'Analysis already running' and POST /analyze with status 409, no analysis
\* is started for it, and isRunning and the analysis under way stay as they
\* are.
C26_SecondTriggerTurnedAway ==
  [][/\ Cardinality({c \in Callers : calls'[c].pc \notin {"idle", "done"}}) <= 1
     /\ \A c \in Callers :
          (isRunning /\ calls[c].pc = "idle" /\ calls'[c].pc # "idle")
            => /\ calls'[c].pc = "done"
               /\ calls'[c].run = 0
               /\ calls'[c].kind = "post"
                    => (calls'[c].status = 409 /\ calls'[c].answer = "none")
               /\ calls'[c].kind = "cron"
                    => calls'[c].answer = "Analysis already running"
               /\ isRunning' = TRUE
               /\ runs' = runs
               /\ \A d \in Callers \ {c} : calls'[d] = calls[d]]_vars

\* a POST request was answered 409 and the analysis goes on
C26_Witness ==
  \E c, d \in Callers :
    /\ isRunning
    /\ Analysing = {c}
    /\ calls[c].pc = "report"
    /\ TurnedAway(d) /\ calls[d].kind = "post" /\ calls[d].status = 409

\* C27: two analyses never get the same report id: saveReports never writes
\* a report file that holds the report of an earlier analysis.
C27_ReportNeverOverwritten ==
  [][\A id \in ReportIds :
       reportFiles'[id] # reportFiles[id] => reportFiles[id] = 0]_vars

\* C29: under fair settling of the awaited promises, whenever isRunning is
\* true it is false again after a while; the
\* step that ends an analysis, with success or with a failure of monitoring
\* or of the report, sets isRunning to false; lastRun changes only in a
\* step that completes an analysis with success, and is then that analysis.
C29_GuardReleased ==
  /\ isRunning ~> ~isRunning
  /\ [][/\ \A c \in Callers :
             (calls[c].pc # "done" /\ calls'[c].pc = "done" /\ calls'[c].run > 0)
               => ~isRunning'
        /\ lastRun' # lastRun
             => \E c \in Callers :
                  /\ calls[c].pc \in {"report", "email"}
                  /\ calls'[c].answer = "resolved"
                  /\ lastRun' = calls[c].run]_vars

\* an analysis succeeded and set lastRun, a later one failed in the report
\* and left lastRun alone; the guard is free
C29_Witness ==
  \E c, d \in Callers :
    /\ calls[c].answer = "resolved"
    /\ calls[d].answer = "report failed"
    /\ calls[c].run < calls[d].run
    /\ lastRun = calls[c].run
    /\ ~isRunning

\* ------------------------------------------------ properties of the loader
\* every loader call made so far has ended
LoaderQuiet == \A o \in OpSlots : ~InProgress(o)

\* C28: after calls of addCompetitor, updateCompetitor and removeCompetitor
\* made one after the other, the ids in the competitors file and in the
\* cached list are pairwise distinct; an addCompetitor with an id that is in
\* the file fails and leaves file and cached list as they are.
C28_IdsStayUnique ==
  /\ [](( ~overlapped /\ LoaderQuiet)
          => (DistinctIds(competitorsFile) /\ DistinctIds(cache)))
  /\ [][\A o \in OpSlots :
          (ops[o].pc = "idle" /\ ops'[o].op = "add" /\ ~overlapped'
             /\ HasId(competitorsFile, ops'[o].arg.id))
            => /\ ops'[o].pc = "done"
               /\ ops'[o].result = "error"
               /\ competitorsFile' = competitorsFile
               /\ getCompetitors' = getCompetitors]_vars

\* C30: when addCompetitor calls for different new competitors, however their
\* steps interleave, have all returned true, the competitors file and the
\* cached list hold each of the competitors.
C30_NoLostUpdate ==
  (/\ \A o \in OpSlots : ops[o].op \in {"none", "add"}
   /\ LoaderQuiet)
    => \A o \in OpSlots :
         ops[o].result = "ok"
           => (HasId(competitorsFile, ops[o].arg.id) /\ HasId(cache, ops[o].arg.id))

====
